---- MODULE Spec2Model ----
(***************************************************************************)
(* A model of pyTMD/calc_delta_time.py: the Modified Julian Day calculator *)
(* calc_modified_julian_day and the delta-time interpolator                *)
(* calc_delta_time (numpy.loadtxt, then a degree-1 interpolating spline    *)
(* with s=0 and ext=0, evaluated at the query epochs).                     *)
(*                                                                         *)
(* Numbers.  Calendar fields, table delta-times and query epochs are       *)
(* integers.  The two half-integer constants of the Julian-date formula    *)
(* are kept in half-day units.  Values of the spline are exact rationals   *)
(* [num, den] in lowest terms (den > 0); den = 0 stands for a value the    *)
(* fit leaves unspecified.                                                 *)
(***************************************************************************)
EXTENDS Integers, Sequences, FiniteSets, TLC

VARIABLES delta_file, calls, scipy_checks_x

vars == <<delta_file, calls, scipy_checks_x>>

(***************************************************************************)
(* Bounds of the model.                                                    *)
(***************************************************************************)
MinYear == 1858
MaxYear == 2101
MaxLen == 2
MaxRows == 3
MaxQuery == 2
MaxCalls == 3

(***************************************************************************)
(* Exact rational arithmetic.                                              *)
(***************************************************************************)
Abs(n) == IF n < 0 THEN -n ELSE n

RECURSIVE Gcd(_, _)
Gcd(a, b) == IF b = 0 THEN a ELSE Gcd(b, a % b)

Rat(n, d) ==
    LET g == Gcd(Abs(n), Abs(d))
        s == IF d < 0 THEN -1 ELSE 1
    IN  [num |-> (s * n) \div g, den |-> (s * d) \div g]

RatInt(n) == [num |-> n, den |-> 1]

\* over the least common denominator, which keeps the products small
RatAdd(p, q) ==
    LET l == (p.den \div Gcd(p.den, q.den)) * q.den
    IN  Rat(p.num * (l \div p.den) + q.num * (l \div q.den), l)

RatMul(p, q) == Rat(p.num * q.num, p.den * q.den)

Unspecified == [num |-> 0, den |-> 0]

(***************************************************************************)
(* calc_modified_julian_day, scalar arguments.                             *)
(*   floor((MONTH+9.)/12.)            = (MONTH+9) \div 12                  *)
(*   floor((YEAR+(MONTH-9.)/7.)/100.) = (7*YEAR+MONTH-9) \div 700          *)
(* (\div is the floor division).  + 1721028.5 - 2400000.5 is applied in    *)
(* half-day units, in the order of the source.  np.array(MJD,              *)
(* dtype=np.float) keeps the values (np.float is float, numpy < 1.24).     *)
(***************************************************************************)
TWICE_JD_BASE == 3442057
TWICE_MJD_SHIFT == 4800001

calc_modified_julian_day(YEAR, MONTH, DAY) ==
    LET a == 367 * YEAR
        b == (7 * (YEAR + ((MONTH + 9) \div 12))) \div 4
        c == (3 * (((7 * YEAR + MONTH - 9) \div 700) + 1)) \div 4
        d == (275 * MONTH) \div 9
    IN  ((2 * (a - b - c + d + DAY) + TWICE_JD_BASE) - TWICE_MJD_SHIFT) \div 2

(***************************************************************************)
(* numpy's element-wise arithmetic on equal-length arrays, and             *)
(* calc_modified_julian_day on array arguments: every operator of the      *)
(* expression acts on whole arrays.                                        *)
(***************************************************************************)
ArrScale(k, A) == [i \in 1..Len(A) |-> k * A[i]]

ArrShift(A, k) == [i \in 1..Len(A) |-> A[i] + k]

ArrFloorDiv(A, k) == [i \in 1..Len(A) |-> A[i] \div k]

ArrAdd_first(A, B) == [i \in 1..Len(A) |-> A[i] + B[1]]

ArrAdd(A, B) == [i \in 1..Len(A) |-> A[i] + B[i]]

ArrSub(A, B) == [i \in 1..Len(A) |-> A[i] - B[i]]

calc_modified_julian_day_arr(YEAR, MONTH, DAY) ==
    LET a == ArrScale(367, YEAR)
        b == ArrFloorDiv(ArrScale(7, ArrAdd(YEAR, ArrFloorDiv(ArrShift(MONTH, 9), 12))), 4)
        c == ArrFloorDiv(ArrScale(3, ArrShift(
                 ArrFloorDiv(ArrAdd(ArrScale(7, YEAR), ArrShift(MONTH, -9)), 700), 1)), 4)
        d == ArrFloorDiv(ArrScale(275, MONTH), 9)
        e == ArrAdd(ArrAdd(ArrSub(ArrSub(a, b), c), d), DAY)
    IN  ArrFloorDiv(ArrShift(ArrShift(ArrScale(2, e), TWICE_JD_BASE), -TWICE_MJD_SHIFT), 2)

(***************************************************************************)
(* The Gregorian calendar, for stating the claims.                         *)
(***************************************************************************)
IsLeap(Y) == (Y % 4 = 0 /\ Y % 100 # 0) \/ Y % 400 = 0

DaysInMonth(Y, M) ==
    IF M = 2 THEN (IF IsLeap(Y) THEN 29 ELSE 28)
    ELSE IF M \in {4, 6, 9, 11} THEN 30 ELSE 31

ValidDate(Y, M, D) == M \in 1..12 /\ D >= 1 /\ D <= DaysInMonth(Y, M)

RECURSIVE DaysBeforeMonth(_, _)
DaysBeforeMonth(Y, M) ==
    IF M = 1 THEN 0 ELSE DaysBeforeMonth(Y, M - 1) + DaysInMonth(Y, M - 1)

RECURSIVE DaysBeforeYear(_)
DaysBeforeYear(Y) ==
    IF Y <= 1858 THEN 0
    ELSE DaysBeforeYear(Y - 1) + (IF IsLeap(Y - 1) THEN 366 ELSE 365)

\* days from 1858-01-01 to Y-M-D, and from 1858-11-17 to Y-M-D
DayNumber(Y, M, D) == DaysBeforeYear(Y) + DaysBeforeMonth(Y, M) + D - 1

ElapsedDays(Y, M, D) == DayNumber(Y, M, D) - DayNumber(1858, 11, 17)

(***************************************************************************)
(* The delta-time table on disk.  A file is absent, or a sequence of       *)
(* non-blank lines, each a sequence of whitespace-separated tokens; a      *)
(* token is a number or a text that does not parse as one.                 *)
(***************************************************************************)
Num(v) == [numeric |-> TRUE, val |-> v]

Text == [numeric |-> FALSE, val |-> 0]

NoFile == [exists |-> FALSE, rows |-> <<>>]

FileOf(rows) == [exists |-> TRUE, rows |-> rows]

(***************************************************************************)
(* numpy.loadtxt(os.path.expanduser(delta_file)): an absent file raises    *)
(* OSError; a token that is no number, or a line with another number of    *)
(* columns than the first, raises ValueError; the array is squeezed, so a  *)
(* file of one line (or of one column, or empty) loads as a 1-d array.     *)
(***************************************************************************)
Raised(e) == [err |-> e, ndim |-> 0, data |-> <<>>]

RowValues(row) == [j \in 1..Len(row) |-> row[j].val]

Parses(row) == \A j \in 1..Len(row) : row[j].numeric

loadtxt_skip_bad(f) ==
    LET good == SelectSeq(f.rows, Parses)
    IN  IF ~f.exists THEN Raised("OSError")
        ELSE IF \E i \in 1..Len(good) : Len(good[i]) # Len(good[1])
        THEN Raised("ValueError")
        ELSE IF Len(good) = 0 THEN [err |-> "none", ndim |-> 1, data |-> <<>>]
        ELSE IF Len(good) = 1 THEN [err |-> "none", ndim |-> 1, data |-> RowValues(good[1])]
        ELSE IF Len(good[1]) = 1
        THEN [err |-> "none", ndim |-> 1, data |-> [i \in 1..Len(good) |-> good[i][1].val]]
        ELSE [err |-> "none", ndim |-> 2, data |-> [i \in 1..Len(good) |-> RowValues(good[i])]]

loadtxt(f) ==
    IF ~f.exists THEN Raised("OSError")
    ELSE IF \E i \in 1..Len(f.rows) : ~Parses(f.rows[i])
    THEN Raised("ValueError")
    ELSE IF \E i \in 1..Len(f.rows) : Len(f.rows[i]) # Len(f.rows[1])
    THEN Raised("ValueError")
    ELSE IF Len(f.rows) = 0 THEN [err |-> "none", ndim |-> 1, data |-> <<>>]
    ELSE IF Len(f.rows) = 1
    THEN [err |-> "none", ndim |-> 1, data |-> RowValues(f.rows[1])]
    ELSE IF Len(f.rows[1]) = 1
    THEN [err |-> "none", ndim |-> 1, data |-> [i \in 1..Len(f.rows) |-> f.rows[i][1].val]]
    ELSE [err |-> "none", ndim |-> 2, data |-> [i \in 1..Len(f.rows) |-> RowValues(f.rows[i])]]

(***************************************************************************)
(* dinput[:,j] (j counted from 0): IndexError on a 1-d array and on a      *)
(* column the array does not have.                                         *)
(***************************************************************************)
Column(dinput, j) ==
    IF dinput.ndim # 2 THEN Raised("IndexError")
    ELSE IF j >= Len(dinput.data[1]) THEN Raised("IndexError")
    ELSE [err |-> "none", ndim |-> 1,
          data |-> [i \in 1..Len(dinput.data) |-> dinput.data[i][j + 1]]]

(***************************************************************************)
(* scipy.interpolate.UnivariateSpline(x, y, k=1, s=0, ext=0).              *)
(* With x strictly increasing the fit is the interpolating spline of       *)
(* degree 1: n = m+2 knots t = x[1], x[1], x[2], .., x[m-1], x[m], x[m]    *)
(* and coefficients c = y.  With m <= k the constructor raises.  With x    *)
(* not strictly increasing the outcome depends on the installed scipy:     *)
(* its constructor either checks x and raises ValueError, or hands x to    *)
(* FITPACK unchecked, which leaves the fit unspecified.                    *)
(***************************************************************************)
StrictlyIncreasing(x) == \A i \in 1..(Len(x) - 1) : x[i] < x[i + 1]

NoSpline(e) == [err |-> e, defined |-> FALSE, n |-> 0, t |-> <<>>, c |-> <<>>]

UnivariateSpline(x, y, checks_x) ==
    LET m == Len(x)
    IN  IF m <= 1 THEN NoSpline("error")
        ELSE IF ~StrictlyIncreasing(x)
        THEN (IF checks_x THEN NoSpline("ValueError")
              ELSE [err |-> "none", defined |-> FALSE, n |-> 0, t |-> <<>>, c |-> <<>>])
        ELSE [err |-> "none", defined |-> TRUE, n |-> m + 2,
              t |-> <<x[1]>> \o x \o <<x[m]>>, c |-> y]

(***************************************************************************)
(* FITPACK splev for k = 1, as UnivariateSpline.__call__ runs it.  The     *)
(* knot interval t[l] <= arg < t[l+1] is searched from the interval of     *)
(* the previous point, backwards then forwards, and kept within            *)
(* k+1 .. n-k-1; fpbspl gives the two B-spline values on it.               *)
(***************************************************************************)
RECURSIVE SearchBackFrom(_, _, _)
SearchBackFrom(t, l, arg) ==
    IF arg >= t[l] \/ l = 2 THEN l ELSE SearchBackFrom(t, l - 1, arg)

SearchBack_none(t, l, arg) == l

SearchBack(t, l, arg) == SearchBackFrom(t, l, arg)

RECURSIVE SearchForward(_, _, _, _)
SearchForward(t, nk1, l, arg) ==
    IF arg < t[l + 1] \/ l = nk1 THEN l ELSE SearchForward(t, nk1, l + 1, arg)

fpbspl_swapped(t, x, l) ==
    <<Rat(x - t[l], t[l + 1] - t[l]), Rat(t[l + 1] - x, t[l + 1] - t[l])>>

fpbspl(t, x, l) ==
    <<Rat(t[l + 1] - x, t[l + 1] - t[l]), Rat(x - t[l], t[l + 1] - t[l])>>

\* the value at arg on interval l: sum of c[l-k1+j] * h[j], j = 1..k1
SplineValue(s, arg, l) ==
    LET h == fpbspl(s.t, arg, l)
    IN  RatAdd(RatMul(RatInt(s.c[l - 1]), h[1]), RatMul(RatInt(s.c[l]), h[2]))

RECURSIVE SplevFrom(_, _, _, _, _)
SplevFrom(s, x, i, l, ext) ==
    IF i > Len(x) THEN <<>>
    ELSE LET nk1 == s.n - 2
             tb == s.t[2]
             te == s.t[nk1 + 1]
             outside == x[i] < tb \/ x[i] > te
         IN  IF outside /\ ext = 1
             THEN <<RatInt(0)>> \o SplevFrom(s, x, i + 1, l, ext)
             ELSE LET arg == IF outside /\ ext = 3
                             THEN (IF x[i] < tb THEN tb ELSE te)
                             ELSE x[i]
                      lb == SearchBack(s.t, l, arg)
                      lf == SearchForward(s.t, nk1, lb, arg)
                  IN  <<SplineValue(s, arg, lf)>> \o SplevFrom(s, x, i + 1, lf, ext)

splev(x, s, ext) ==
    IF s.defined THEN SplevFrom(s, x, 1, 2, ext)
    ELSE [i \in 1..Len(x) |-> Unspecified]

(***************************************************************************)
(* spl(iMJD): the query is made an array (a single value is padded to one  *)
(* element), evaluated with the spline's own ext = 0, and given back in    *)
(* the shape of the query.                                                 *)
(***************************************************************************)
Scalar(v) == [shape |-> "scalar", data |-> <<v>>]

Array(vs) == [shape |-> "array", data |-> vs]

atleast_1d(a) == [shape |-> "array", data |-> a.data]

reshape(vals, shape) == [shape |-> shape, data |-> vals]

spl_clamped(s, iMJD) == reshape(splev(atleast_1d(iMJD).data, s, 3), iMJD.shape)

spl(s, iMJD) == reshape(splev(atleast_1d(iMJD).data, s, 0), iMJD.shape)

(***************************************************************************)
(* calc_delta_time(delta_file, iMJD).  f is the file as it is on disk when *)
(* the call reads it.  The outcome is the returned value, or the exception *)
(* that leaves the function.                                               *)
(***************************************************************************)
Raise(e) == [status |-> "raised", error |-> e, deltat |-> Array(<<>>)]

Return(v) == [status |-> "returned", error |-> "none", deltat |-> v]

\* dinput[:,3], the ordinates of the fit
DeltaColumn_day(dinput) == Column(dinput, 2)

DeltaColumn(dinput) == Column(dinput, 3)

\* the body of calc_delta_time past the read, on the loaded array
calc_delta_time_from(dinput, iMJD, checks_x) ==
    LET YEAR == Column(dinput, 0)
        MONTH == Column(dinput, 1)
        DAY == Column(dinput, 2)
        dt == DeltaColumn(dinput)
    IN  IF dinput.err # "none" THEN Raise(dinput.err)
        ELSE IF YEAR.err # "none" THEN Raise(YEAR.err)
        ELSE IF MONTH.err # "none" THEN Raise(MONTH.err)
        ELSE IF DAY.err # "none" THEN Raise(DAY.err)
        ELSE LET MJD == calc_modified_julian_day_arr(YEAR.data, MONTH.data, DAY.data)
             IN  IF dt.err # "none" THEN Raise(dt.err)
                 ELSE LET s == UnivariateSpline(MJD, dt.data, checks_x)
                      IN  IF s.err # "none" THEN Raise(s.err) ELSE Return(spl(s, iMJD))

calc_delta_time_row_fallback(f, iMJD, checks_x) ==
    LET dinput == loadtxt(f)
    IN  IF dinput.err = "none" /\ dinput.ndim = 1 /\ Len(dinput.data) >= 4
        THEN Return(reshape([i \in 1..Len(iMJD.data) |-> RatInt(dinput.data[4])], iMJD.shape))
        ELSE calc_delta_time_from(dinput, iMJD, checks_x)

calc_delta_time_order_checked(f, iMJD, checks_x) ==
    LET dinput == loadtxt(f)
        YEAR == Column(dinput, 0)
        MONTH == Column(dinput, 1)
        DAY == Column(dinput, 2)
    IN  IF /\ dinput.err = "none"
           /\ dinput.ndim = 2
           /\ Len(dinput.data[1]) >= 4
           /\ ~StrictlyIncreasing(
                  calc_modified_julian_day_arr(YEAR.data, MONTH.data, DAY.data))
        THEN Raise("ValueError")
        ELSE calc_delta_time_from(dinput, iMJD, checks_x)

calc_delta_time(f, iMJD, checks_x) == calc_delta_time_from(loadtxt(f), iMJD, checks_x)

(***************************************************************************)
(* Calls of calc_modified_julian_day.  calls holds the completed calls,    *)
(* newest first; a run of SpecMJD makes one call.                          *)
(***************************************************************************)
Years == MinYear..MaxYear

VecYears == {1900, 1901, 2000}
VecMonths == {1, 3, 9}
VecDays == {1, 31}

SeqsUpTo(S, n) == UNION {[1..k -> S] : k \in 0..n}

InitMJD == delta_file = NoFile /\ calls = <<>> /\ scipy_checks_x \in BOOLEAN

CallScalar ==
    /\ calls = <<>>
    /\ \E Y \in Years, M \in 1..12, D \in 1..31 :
        /\ calls' = <<[fn |-> "calc_modified_julian_day", shape |-> "scalar",
                      YEAR |-> Y, MONTH |-> M, DAY |-> D,
                      MJD |-> calc_modified_julian_day(Y, M, D)]>>
        /\ UNCHANGED <<delta_file, scipy_checks_x>>

CallArray ==
    /\ calls = <<>>
    /\ \E n \in 0..MaxLen :
        \E Ys \in [1..n -> VecYears], Ms \in [1..n -> VecMonths], Ds \in [1..n -> VecDays] :
            /\ calls' = <<[fn |-> "calc_modified_julian_day", shape |-> "array",
                          YEAR |-> Ys, MONTH |-> Ms, DAY |-> Ds,
                          MJD |-> calc_modified_julian_day_arr(Ys, Ms, Ds)]>>
            /\ UNCHANGED <<delta_file, scipy_checks_x>>

NextMJD == CallScalar \/ CallArray

SpecMJD == InitMJD /\ [][NextMJD]_vars

\* C1: for every valid Gregorian date in MinYear..MaxYear,
\* calc_modified_julian_day returns the number of days elapsed since
\* 1858-11-17 (0 for 1858-11-17 itself, 51544 for 2000-01-01).
C1_MJDIsElapsedDays ==
    \A i \in 1..Len(calls) :
        (calls[i].shape = "scalar" /\ ValidDate(calls[i].YEAR, calls[i].MONTH, calls[i].DAY))
            => calls[i].MJD = ElapsedDays(calls[i].YEAR, calls[i].MONTH, calls[i].DAY)

\* C6: on equal-length arrays the result has the same length and its i-th
\* element is the result of the scalar call on the i-th triple.
C6_ArrayAgreesWithScalar ==
    \A i \in 1..Len(calls) :
        calls[i].shape = "array" =>
            /\ Len(calls[i].MJD) = Len(calls[i].YEAR)
            /\ \A j \in 1..Len(calls[i].YEAR) :
                  calls[i].MJD[j] =
                      calc_modified_julian_day(calls[i].YEAR[j], calls[i].MONTH[j], calls[i].DAY[j])

C6_Witness ==
    /\ calls # <<>>
    /\ calls[1].shape = "array"
    /\ Len(calls[1].YEAR) = 2
    /\ calls[1].MONTH[1] # calls[1].MONTH[2]
    /\ calls[1].MJD[1] # calls[1].MJD[2]
(***************************************************************************)
(* Calls of calc_delta_time.                                               *)
(***************************************************************************)
RowA == <<Num(1858), Num(11), Num(17), Num(32)>>
RowB == <<Num(1861), Num(8), Num(13), Num(33)>>
RowC == <<Num(1864), Num(5), Num(9), Num(35)>>
RowE == <<Num(1900), Num(8), Num(31), Num(40)>>
RowF == <<Num(1900), Num(9), Num(1), Num(41)>>
RowShort == <<Num(1858), Num(11), Num(17)>>
RowText == <<Num(1858), Text, Num(17), Num(32)>>

FileRows == {RowA, RowB, RowE, RowF, RowShort, RowText}

Files == {NoFile} \cup {FileOf(r) : r \in SeqsUpTo(FileRows, MaxRows)}

QueryEpochs == {-1000, 500, 1000, 20000}

Queries == {Scalar(v) : v \in QueryEpochs}
               \cup {Array(vs) : vs \in SeqsUpTo(QueryEpochs, MaxQuery)}

\* the file the call opens: the file on disk at the time of the call
open_delta_file_cached == IF calls # <<>> THEN calls[1].file ELSE delta_file

open_delta_file == delta_file

CallDeltaTime(Q, cap) ==
    /\ Len(calls) < cap
    /\ \E q \in Q :
        /\ calls' = <<[fn |-> "calc_delta_time", file |-> delta_file, iMJD |-> q,
                      out |-> calc_delta_time(open_delta_file, q, scipy_checks_x)]>>
                    \o calls
        /\ UNCHANGED <<delta_file, scipy_checks_x>>

Init == delta_file \in Files /\ calls = <<>> /\ scipy_checks_x \in BOOLEAN

Next == CallDeltaTime(Queries, 1)

Spec == Init /\ [][Next]_vars

(***************************************************************************)
(* Calls interleaved with changes of the file made from outside.           *)
(***************************************************************************)
StatelessFiles ==
    {NoFile, FileOf(<<RowA, RowB>>), FileOf(<<RowA, RowC>>), FileOf(<<RowB, RowA>>)}

StatelessQueries == {Scalar(500), Scalar(3000)}

ExternalChange ==
    \E f \in StatelessFiles :
        /\ f # delta_file
        /\ delta_file' = f
        /\ UNCHANGED <<calls, scipy_checks_x>>

InitStateless ==
    delta_file \in StatelessFiles /\ calls = <<>> /\ scipy_checks_x \in BOOLEAN

NextStateless == ExternalChange \/ CallDeltaTime(StatelessQueries, MaxCalls)

SpecStateless == InitStateless /\ [][NextStateless]_vars

(***************************************************************************)
(* The table of a file, for stating the claims.                            *)
(***************************************************************************)
WellFormed(f) ==
    f.exists /\ \A i \in 1..Len(f.rows) : Len(f.rows[i]) = 4 /\ Parses(f.rows[i])

TableMJD(f) ==
    [i \in 1..Len(f.rows) |->
        calc_modified_julian_day(f.rows[i][1].val, f.rows[i][2].val, f.rows[i][3].val)]

TableDT(f) == [i \in 1..Len(f.rows) |-> f.rows[i][4].val]

Fitted(f) == WellFormed(f) /\ Len(f.rows) >= 2 /\ StrictlyIncreasing(TableMJD(f))

\* the value at q on the straight line through (x1, y1) and (x2, y2)
OnLine(x1, y1, x2, y2, q) == Rat(y1 * (x2 - q) + y2 * (q - x1), x2 - x1)

\* C2: with a table of strictly increasing MJD the call returns, for a
\* query equal to a row's MJD, that row's delta-time, and for a query
\* strictly between two adjacent rows the linear interpolation of the two.
C2_InterpolatesTable ==
    \A n \in 1..Len(calls) :
        LET c == calls[n]
            x == TableMJD(c.file)
            y == TableDT(c.file)
        IN  Fitted(c.file) =>
              /\ c.out.status = "returned"
              /\ \A i \in 1..Len(c.iMJD.data) :
                    /\ \A j \in 1..Len(x) :
                          c.iMJD.data[i] = x[j] => c.out.deltat.data[i] = RatInt(y[j])
                    /\ \A j \in 1..(Len(x) - 1) :
                          (x[j] < c.iMJD.data[i] /\ c.iMJD.data[i] < x[j + 1]) =>
                              c.out.deltat.data[i] =
                                  OnLine(x[j], y[j], x[j + 1], y[j + 1], c.iMJD.data[i])

C2_Witness ==
    /\ calls # <<>>
    /\ calls[1].file = FileOf(<<RowA, RowB, RowE>>)
    /\ calls[1].iMJD = Array(<<500, 1000>>)
    /\ calls[1].out.status = "returned"
    /\ calls[1].out.deltat.data = <<Rat(65, 2), RatInt(33)>>

\* C3: with a table of strictly increasing MJD a query below the first
\* row's MJD gets the value on the line through the first two rows and a
\* query above the last row's MJD the value on the line through the last
\* two rows; with a nonzero edge slope that is not the boundary row's
\* delta-time.
C3_ExtrapolatesLinearly ==
    \A n \in 1..Len(calls) :
        LET c == calls[n]
            x == TableMJD(c.file)
            y == TableDT(c.file)
            m == Len(x)
        IN  Fitted(c.file) =>
              /\ c.out.status = "returned"
              /\ \A i \in 1..Len(c.iMJD.data) :
                    /\ c.iMJD.data[i] < x[1] =>
                          /\ c.out.deltat.data[i] =
                                 OnLine(x[1], y[1], x[2], y[2], c.iMJD.data[i])
                          /\ y[1] # y[2] => c.out.deltat.data[i] # RatInt(y[1])
                    /\ c.iMJD.data[i] > x[m] =>
                          /\ c.out.deltat.data[i] =
                                 OnLine(x[m - 1], y[m - 1], x[m], y[m], c.iMJD.data[i])
                          /\ y[m - 1] # y[m] => c.out.deltat.data[i] # RatInt(y[m])

C3_Witness ==
    /\ calls # <<>>
    /\ calls[1].file = FileOf(<<RowA, RowB, RowE>>)
    /\ calls[1].iMJD = Array(<<20000, -1000>>)
    /\ calls[1].out.status = "returned"
    /\ calls[1].out.deltat.data = <<Rat(603679, 14263), RatInt(31)>>

\* C4: a call on a file that is absent, or has a line with a token that is
\* no number, or a line of fewer than four columns, raises and gives no
\* delta-time; a call returns only for a file that exists and whose every
\* line is numeric with at least four columns.
C4_AllOrNothing ==
    \A n \in 1..Len(calls) :
        LET c == calls[n]
            bad == \/ ~c.file.exists
                   \/ \E i \in 1..Len(c.file.rows) :
                          ~Parses(c.file.rows[i]) \/ Len(c.file.rows[i]) < 4
        IN  /\ bad => (c.out.status = "raised" /\ c.out.deltat.data = <<>>)
            /\ c.out.status = "raised" => (c.out.error # "none" /\ c.out.deltat.data = <<>>)
            /\ c.out.status = "returned" => (~bad /\ c.out.error = "none")

C4_Witness ==
    /\ calls # <<>>
    /\ calls[1].file = FileOf(<<RowA, RowB, RowText>>)
    /\ calls[1].iMJD = Scalar(500)
    /\ calls[1].out.status = "raised"
    /\ calls[1].out.error = "ValueError"

\* C5: a call that returns gives one value per query epoch, in the shape
\* and order of the query, and the i-th value is the value the call gives
\* for the i-th epoch queried alone as a single value.
C5_OnePerQuery ==
    \A n \in 1..Len(calls) :
        LET c == calls[n]
        IN  c.out.status = "returned" =>
              /\ c.out.deltat.shape = c.iMJD.shape
              /\ Len(c.out.deltat.data) = Len(c.iMJD.data)
              /\ \A i \in 1..Len(c.iMJD.data) :
                    c.out.deltat.data[i] =
                        calc_delta_time(c.file, Scalar(c.iMJD.data[i]), scipy_checks_x).deltat.data[1]

C5_Witness ==
    /\ calls # <<>>
    /\ calls[1].file = FileOf(<<RowA, RowB, RowE>>)
    /\ calls[1].iMJD = Array(<<20000, 500>>)
    /\ calls[1].out.status = "returned"
    /\ calls[1].out.deltat.data = <<Rat(603679, 14263), Rat(65, 2)>>

\* a well-formed table of two or more rows whose MJD are not strictly
\* increasing: rows out of date order, or two rows with the same MJD
Unordered(f) == WellFormed(f) /\ Len(f.rows) >= 2 /\ ~StrictlyIncreasing(TableMJD(f))

\* C8 as stated: a call on a well-formed table of two or more rows whose
\* MJD are not strictly increasing (rows out of date order, or two rows
\* with the same MJD) raises nothing and returns one value per query.
C8_UnorderedTableReturns ==
    \A n \in 1..Len(calls) :
        Unordered(calls[n].file) =>
            /\ calls[n].out.status = "returned"
            /\ Len(calls[n].out.deltat.data) = Len(calls[n].iMJD.data)

\* C8 as amended: calc_delta_time makes no check of the order itself; on
\* such a table the outcome is the spline constructor's: ValueError where
\* the installed scipy validates the abscissae, and otherwise one value
\* per query, which the fit leaves unspecified.
C8_OutcomeIsTheLibrarys ==
    \A n \in 1..Len(calls) :
        Unordered(calls[n].file) =>
            IF scipy_checks_x
            THEN calls[n].out = Raise("ValueError")
            ELSE /\ calls[n].out.status = "returned"
                 /\ Len(calls[n].out.deltat.data) = Len(calls[n].iMJD.data)
                 /\ \A i \in 1..Len(calls[n].iMJD.data) :
                        calls[n].out.deltat.data[i] = Unspecified

C8_Witness ==
    /\ calls # <<>>
    /\ ~scipy_checks_x
    /\ calls[1].file = FileOf(<<RowB, RowA>>)
    /\ calls[1].iMJD = Array(<<500, 1000>>)
    /\ calls[1].out.status = "returned"
    /\ Len(calls[1].out.deltat.data) = 2

\* C10: a call on a well-formed file of exactly one line of four numbers
\* raises, whatever the query.
C10_SingleRowRaises ==
    \A n \in 1..Len(calls) :
        (WellFormed(calls[n].file) /\ Len(calls[n].file.rows) = 1)
            => calls[n].out.status = "raised"

C10_Witness ==
    /\ calls # <<>>
    /\ calls[1].file = FileOf(<<RowB>>)
    /\ calls[1].iMJD = Scalar(1000)
    /\ calls[1].out.status = "raised"
    /\ calls[1].out.error = "IndexError"

\* valid Gregorian dates of MinYear..MaxYear in strictly ascending order
AscendingDates(f) ==
    /\ \A i \in 1..Len(f.rows) :
          /\ f.rows[i][1].val \in Years
          /\ ValidDate(f.rows[i][1].val, f.rows[i][2].val, f.rows[i][3].val)
    /\ \A i \in 1..(Len(f.rows) - 1) :
          DayNumber(f.rows[i][1].val, f.rows[i][2].val, f.rows[i][3].val)
              < DayNumber(f.rows[i + 1][1].val, f.rows[i + 1][2].val, f.rows[i + 1][3].val)

\* C9: for a table of valid Gregorian dates in strictly ascending date
\* order the MJD sequence the call computes is strictly increasing.
C9_SortedDatesGiveIncreasingMJD ==
    \A n \in 1..Len(calls) :
        (WellFormed(calls[n].file) /\ AscendingDates(calls[n].file))
            => StrictlyIncreasing(TableMJD(calls[n].file))

\* two calls on equal file contents with equal queries give the same outcome
C7_Determined ==
    \A i \in 1..Len(calls) : \A j \in 1..Len(calls) :
        (calls[i].file = calls[j].file /\ calls[i].iMJD = calls[j].iMJD)
            => calls[i].out = calls[j].out

\* C7: a call leaves the file as it is, and what it gives back is
\* determined by the file at the time of the call and by the query: two
\* calls on equal file contents with equal queries give the same outcome,
\* whatever was called or written in between.
C7_Stateless ==
    [](C7_Determined) /\ [][calls' # calls => delta_file' = delta_file]_vars

C7_Witness ==
    /\ Len(calls) = 3
    /\ calls[1].file = calls[3].file
    /\ calls[1].iMJD = calls[3].iMJD
    /\ calls[2].iMJD = calls[1].iMJD
    /\ calls[2].file # calls[1].file
    /\ calls[2].out # calls[1].out
    /\ calls[1].out.status = "returned"
    /\ calls[2].out.status = "returned"
====
